---- MODULE Spec2Model ----
(***************************************************************************)
(* The PageSpy extension bridge: the page-side interceptor                  *)
(* (src/src/content/bridge.ts), the content-script forwarder                *)
(* (src/unnamed/part_000) and the privileged relay (src/src/sw/index.ts).   *)
(*                                                                          *)
(* One page instance is modelled.  The window message bus is one FIFO       *)
(* queue whose head is dispatched to both 'message' listeners (the page's   *)
(* handleBridgeMessage and the content script's listener) in one task.      *)
(* One-shot runtime messages (fetch) are unordered; the long-lived port is  *)
(* a FIFO queue in each direction.                                          *)
(***************************************************************************)
EXTENDS Naturals, Sequences, FiniteSets, TLC

\* ---------------------------------------------------------------- bounds
\* MaxOps bounds the calls the page makes (fetch, new WebSocket, send,
\* close) together with the environment's optional events (an incoming
\* frame, a stray response, a relay termination); MaxSockets bounds the
\* sockets among them.
MaxOps == 3
MaxSockets == 1

FetchIds == 1..MaxOps
WsIds == 1..MaxSockets

\* ------------------------------------------------------------- constants
BRIDGE_SCOPE == "pagespy-bridge"
BRIDGE_FETCH == "pagespy:fetch"
FETCH_RESPONSE == "pagespy:fetch:response"
WS_OPEN == "pagespy:ws-open"
WS_SEND == "pagespy:ws-send"
WS_CLOSE == "pagespy:ws-close"
WS_EVENT == "pagespy:ws-event"

CONNECTING == "CONNECTING"
OPEN == "OPEN"
CLOSING == "CLOSING"
CLOSED == "CLOSED"

\* An id no genId call ever returned (a response nobody asked for).
StrayId == MaxOps + 1

\* err.message values of a failed real fetch; "" stands for an empty or
\* missing message (falsy in the page's || and && tests).
ErrMsgs == {"", "Failed to fetch"}
LastErrorMsg == "The message port closed before a response was received."
RequestFailed == "Request failed"

\* Close codes the page may pass: a code the real WebSocket.close accepts
\* and one it rejects with an exception.
CloseCodes == {"valid", "invalid"}
Frames == {"text", "binary"}
\* What the page passes to send.
Data == {"d1", "d2"}

VARIABLES
  nextFetch,       \* genId('fetch'): number of request ids minted so far
  nextWs,          \* genId('ws'): number of socket ids minted so far
  pendingFetches,  \* bridge.ts pendingFetches: request id -> the call whose resolvers it holds
  promise,         \* per proxied fetch call: the promise returned to the caller
  settles,         \* per call: how often its resolve/reject was invoked
  socketMap,       \* bridge.ts socketMap: the ids of the registered virtual sockets
  readyState,      \* per virtual socket: BridgeWebSocket.readyState
  last,            \* the page call or window dispatch just made, and its outcome
  winQ,            \* window.postMessage: the page's message bus
  swInbox,         \* chrome.runtime.sendMessage requests not yet received by the relay
  swFetching,      \* requests whose handleProxiedFetch is running
  swReplies,       \* sendMessage callbacks about to run in the content script
  replyCount,      \* per request id: sendResponse calls made by the relay
  fetchResult,     \* per request id: how the relay's real fetch ended
  wsPort,          \* part_000 wsPort: 0 = null, otherwise the port's number
  portUp,          \* port messages content script -> relay
  portDown,        \* port messages relay -> content script
  relayPort,       \* relay side of the channel: "none", "connected", "disconnected"
  sockets,         \* sw/index.ts sockets: ids of the channel's table
  realState,       \* per id: readyState of the real WebSocket the relay created
  pageAlive,       \* FALSE once the page navigated away
  ops,             \* bounded operations done so far (see MaxOps)
  lost,            \* channels lost so far (numbers the ports)
  cache,           \* sessionStorage item PAGE_SPY_EXTENSION_CONFIG_KEY
  origin,          \* location.origin of the page
  marker,          \* window.__PAGE_SPY_BRIDGE__
  listeners,       \* the window's 'message' listeners registered by installBridge
  windowFetch,     \* window.fetch: the proxy layers stacked on the native fetch
  windowWebSocket, \* window.WebSocket: the proxy layers stacked on the native constructor
  installs,        \* installBridge calls made so far
  routed,          \* the last fetch / new WebSocket call and where it went
  body,            \* the body of a RequestInit handed to serializeInit
  wire,            \* its SerializedBody, as posted in the fetch-request
  rebuilt,         \* what deserializeBody made of it on the relay
  emitted,         \* per socket id: the events the relay posted on the channel, in order
  handled,         \* per socket id: the events handleRemoteEvent handled, in order
  rxFrame,         \* the frame the real socket received last
  binaryType,      \* BridgeWebSocket.binaryType of the virtual socket
  portData,        \* `data` of the message event the relay posted on the port
  winData,         \* `data` of the ws-event payload on the window bus
  eventData        \* `data` of the MessageEvent the page's handlers got last

pageVars == <<nextFetch, nextWs, pendingFetches, promise, settles, socketMap,
              readyState>>
fetchVars == <<swInbox, swFetching, swReplies, replyCount, fetchResult>>
portVars == <<wsPort, portUp, portDown, relayPort>>
relayVars == <<sockets, realState>>
installVars == <<cache, origin, marker, listeners, windowFetch, windowWebSocket,
                 installs, routed>>
bodyVars == <<body, wire, rebuilt>>
logVars == <<emitted, handled>>
frameVars == <<rxFrame, binaryType, portData, winData, eventData>>
idleVars == <<installVars, bodyVars, frameVars>>
auxVars == <<idleVars, logVars>>
bridgeVars == <<pageVars, last, winQ, fetchVars, portVars, relayVars, pageAlive, ops, lost>>
vars == <<bridgeVars, auxVars>>

\* ---------------------------------------------------------------- values
\* FetchResponsePayload (bridge.ts 34-41).  defined = FALSE is `undefined`;
\* ok is "true", "false" or "undef" (field absent).
NoPayload == [defined |-> FALSE, ok |-> "undef", status |-> 0, body |-> 0, error |-> ""]
OkPayload(st, b) == [defined |-> TRUE, ok |-> "true", status |-> st, body |-> b, error |-> ""]
ErrPayload(e) == [defined |-> TRUE, ok |-> "false", status |-> 0, body |-> 0, error |-> e]

\* A proxied fetch call: inner is responsePromise (bridge.ts 154), state is
\* the promise the async function returned to the caller; value / error are
\* what the caller's promise settled with, via the request id of the
\* message that settled it.
NoPromise == [state |-> "none", inner |-> "none", value |-> NoPayload, error |-> "",
              via |-> StrayId]
PendingPromise == [state |-> "pending", inner |-> "pending", value |-> NoPayload,
                   error |-> "", via |-> StrayId]

\* The step just taken, when it was a call of the page or a window dispatch.
NoCall == [op |-> "none", id |-> 0, arg |-> "", note |-> ""]
Call(op, id, arg, note) == [op |-> op, id |-> id, arg |-> arg, note |-> note]

\* The page posts a message on the window bus (scope tag included).
FetchRequestMsg(id) ==
  [scope |-> BRIDGE_SCOPE, type |-> BRIDGE_FETCH, requestId |-> id, url |-> id]
FetchResponseMsg(id, payload, error) ==
  [scope |-> BRIDGE_SCOPE, type |-> FETCH_RESPONSE, requestId |-> id,
   payload |-> payload, error |-> error]
WsOpenMsg(w, urlOk) ==
  [scope |-> BRIDGE_SCOPE, type |-> WS_OPEN, wsId |-> w, urlOk |-> urlOk]
WsSendMsg(w, d) ==
  [scope |-> BRIDGE_SCOPE, type |-> WS_SEND, wsId |-> w, data |-> d]
WsCloseMsg(w, code) ==
  [scope |-> BRIDGE_SCOPE, type |-> WS_CLOSE, wsId |-> w, code |-> code]
WsEvent(w, ev, d) == [wsId |-> w, event |-> ev, data |-> d]
WsEventMsg(payload) ==
  [scope |-> BRIDGE_SCOPE, type |-> WS_EVENT, payload |-> payload]

\* ---------------------------------------------------- request bodies
\* MaxBytes bounds the length of a buffer, MaxFields the fields of a form.
MaxBytes == 2
MaxFields == 2

Bytes == {7, 9}
ByteSeqs == UNION {[1..n -> Bytes] : n \in 0..MaxBytes}
Texts == {"", "a=1"}
Mimes == {"", "image/png"}

\* BodyInit values a page hands to fetch.  A view (typed array, DataView)
\* covers `length` bytes from `offset` of its underlying buffer.
NullBody == [kind |-> "null"]
StringBody(v) == [kind |-> "string", value |-> v]
ParamsBody(v) == [kind |-> "URLSearchParams", value |-> v]
BufferBody(b) == [kind |-> "ArrayBuffer", bytes |-> b]
ViewBody(b, off, len) == [kind |-> "view", buffer |-> b, offset |-> off, length |-> len]
BlobBody(b, m) == [kind |-> "Blob", bytes |-> b, mime |-> m]
FormBody(fs) == [kind |-> "FormData", fields |-> fs]
StreamBody == [kind |-> "ReadableStream"]
TextField(k, v) == [key |-> k, file |-> FALSE, value |-> v]
FileField(k, n, m, b) == [key |-> k, file |-> TRUE, name |-> n, mime |-> m, bytes |-> b]

Fields ==
  {TextField(k, "v") : k \in {"k1", "k2"}}
  \cup {FileField("k1", "f.bin", m, b) : m \in Mimes, b \in {<<>>, <<7>>}}
Bodies ==
  {NullBody, StreamBody}
  \cup {StringBody(v) : v \in Texts}
  \cup {ParamsBody(v) : v \in Texts}
  \cup {BufferBody(b) : b \in ByteSeqs}
  \cup UNION {UNION {{ViewBody(b, off, len) : len \in 0..(Len(b) - off)} :
                       off \in 0..Len(b)} : b \in ByteSeqs}
  \cup {BlobBody(b, m) : b \in ByteSeqs, m \in Mimes}
  \cup {FormBody(fs) : fs \in UNION {[1..n -> Fields] : n \in 0..MaxFields}}

PendingWire == [type |-> "pending"]
PendingBody == [kind |-> "pending"]

\* FormData entry -> FormDataEntryPayload (bridge.ts 350-362).
serializeEntry(f) ==
  IF ~f.file THEN [key |-> f.key, valueType |-> "text", value |-> f.value]
  ELSE [key |-> f.key, valueType |-> "file", name |-> f.name, mime |-> f.mime,
        buffer |-> f.bytes]

\* The bytes a view covers: what the page's fetch would send for it.
viewBytes(b) == SubSeq(b.buffer, b.offset + 1, b.offset + b.length)

\* serializeBody (bridge.ts 339-378).
serializeBody(b) ==
  CASE b.kind = "null" -> [type |-> "none"]                                \* 340
    [] b.kind = "string" ->
         IF b.value = "" THEN [type |-> "none"]                           \* 340
         ELSE [type |-> "text", value |-> b.value]                        \* 342
    [] b.kind = "URLSearchParams" -> [type |-> "text", value |-> b.value] \* 344-346
    [] b.kind = "FormData" ->                                             \* 348-365
         [type |-> "formData",
          entries |-> [i \in 1..Len(b.fields) |-> serializeEntry(b.fields[i])]]
    [] b.kind = "Blob" -> [type |-> "blob", buffer |-> b.bytes, mime |-> b.mime]  \* 367-370
    [] b.kind = "ArrayBuffer" -> [type |-> "arrayBuffer", buffer |-> b.bytes]     \* 372-375
    [] b.kind = "view" -> [type |-> "arrayBuffer", buffer |-> b.buffer]           \* 373-374
    [] OTHER -> [type |-> "none"]                                         \* 377

\* FormDataEntryPayload -> FormData entry (sw/index.ts 235-244).
deserializeEntry(e) ==
  IF e.valueType = "text" THEN TextField(e.key, e.value)
  ELSE FileField(e.key, e.name, e.mime, e.buffer)

\* deserializeBody (sw/index.ts 223-250).
deserializeBody(w) ==
  CASE w.type = "none" -> [kind |-> "undefined"]
    [] w.type = "text" -> StringBody(w.value)
    [] w.type = "arrayBuffer" -> [kind |-> "Uint8Array", bytes |-> w.buffer]
    [] w.type = "blob" -> BlobBody(w.buffer, w.mime)
    [] w.type = "formData" ->
         FormBody([i \in 1..Len(w.entries) |-> deserializeEntry(w.entries[i])])
    [] OTHER -> [kind |-> "undefined"]

\* ------------------------------------------------- incoming frames
\* A frame the real socket receives: text, or binary with its bytes.
TextFrame(v) == [binary |-> FALSE, value |-> v]
BinaryFrame(b) == [binary |-> TRUE, bytes |-> b]
FramesIn == {TextFrame(v) : v \in Texts} \cup {BinaryFrame(b) : b \in ByteSeqs}
BinaryTypes == {"blob", "arraybuffer"}

\* Values of a `data` field.
NoData == [kind |-> "pending"]
NullData == [kind |-> "null"]
StringData(v) == [kind |-> "string", value |-> v]
BytesData(kind, b) == [kind |-> kind, bytes |-> b]

\* binaryType of the real socket: sw/index.ts 96 constructs it and no line
\* assigns ws.binaryType, so it has the default of the platform.
realBinaryType == "blob"

\* evt.data of the real socket's message event, by its binaryType.
frameEventData(f, bt) ==
  IF ~f.binary THEN StringData(f.value)
  ELSE IF bt = "arraybuffer" THEN BytesData("ArrayBuffer", f.bytes)
  ELSE BytesData("Blob", f.bytes)

\* The `data` ws.onmessage posts (sw/index.ts 102-107).
onmessageData(d) ==
  CASE d.kind = "string" -> d
    [] d.kind = "ArrayBuffer" -> BytesData("Uint8Array", d.bytes)
    [] OTHER -> NullData

\* What a port of chrome.runtime carries to the other end: a structured
\* clone keeps a Uint8Array, the JSON form makes a plain object of it.
PortCodecs == {"clone", "json"}
portCarried(d, codec) ==
  IF d.kind = "Uint8Array" /\ codec = "json" THEN BytesData("object", d.bytes) ELSE d

\* The `data` of the MessageEvent handleRemoteEvent makes (bridge.ts 282-286).
messageEventData(d, bt) ==
  IF d.kind = "Uint8Array" /\ bt = "arraybuffer"
    THEN BytesData("ArrayBuffer", d.bytes)
  ELSE d

NotReceived == [kind |-> "none"]
NoFrame ==
  /\ rxFrame = NotReceived
  /\ binaryType = "blob"
  /\ portData = NoData
  /\ winData = NoData
  /\ eventData = NoData

\* ------------------------------------------- configuration, eligibility
\* MaxInstalls bounds the installBridge calls of one page.
MaxInstalls == 2

\* Field values: Absent is a field the JSON object does not have
\* (undefined), "" the empty string; both are falsy.
Absent == "absent"
Rules == {"rule-a", "rule-any"}
Origins == {"https://a.test", "https://b.test"}

\* Service addresses as the configuration layer stores them (host, optional
\* port, optional path); port 0 is no port given; ok = FALSE is an address
\* `new URL` rejects.
Address(name, port, path, ok) ==
  [given |-> TRUE, name |-> name, port |-> port, path |-> path, ok |-> ok]
NoAddress == [given |-> FALSE, name |-> "", port |-> 0, path |-> "", ok |-> FALSE]
Addresses ==
  {Address("svc.test", 0, "", TRUE), Address("svc.test", 443, "/", TRUE),
   Address("svc.test", 8080, "/room/", TRUE), Address("svc test", 0, "", FALSE)}

\* The cached item: kind says what JSON.parse makes of the text.
\*   absent  getItem returns null        empty    the empty string
\*   garbage not JSON (parse throws)     null     the JSON text null
\*   scalar  a JSON number or string     array    a JSON array
\*   object  a JSON object with the fields given
CacheItem(kind, rules, ssl, addr) ==
  [kind |-> kind, domainRules |-> rules, enableSSL |-> ssl, serviceAddress |-> addr]
Caches ==
  {CacheItem(k, Absent, Absent, NoAddress) :
     k \in {"absent", "empty", "garbage", "null", "scalar", "array"}}
  \cup {CacheItem("object", r, ssl, a) :
          r \in Rules \cup {Absent, ""}, ssl \in {"true", "false", Absent},
          a \in Addresses \cup {NoAddress}}

\* The URL a call names, resolved against location.href.
Url(scheme, name, port) == [scheme |-> scheme, name |-> name, port |-> port]
Urls ==
  {Url(sc, n, p) : sc \in {"https", "http", "wss"}, n \in {"svc.test", "other.test"},
                   p \in {0, 443, 8080}}

\* URL.host: the port is left out when it is the scheme's default.
defaultPort(scheme) == IF scheme \in {"https", "wss"} THEN 443 ELSE 80
urlHost(scheme, name, port) ==
  [name |-> name, port |-> IF port = defaultPort(scheme) THEN 0 ELSE port]

\* readCachedConfig (bridge.ts 55-65): null, or what was parsed.
NullConfig == [isNull |-> TRUE, threw |-> FALSE, domainRules |-> Absent,
               enableSSL |-> Absent, serviceAddress |-> NoAddress]
ThrownConfig == [NullConfig EXCEPT !.threw = TRUE]
Config(c) == [isNull |-> FALSE, threw |-> FALSE, domainRules |-> c.domainRules,
              enableSSL |-> c.enableSSL, serviceAddress |-> c.serviceAddress]

\* Faulty variant of readCachedConfig: JSON.parse without the try.
readCachedConfigNoCatch(c) ==
  CASE c.kind \in {"absent", "empty"} -> NullConfig
    [] c.kind = "garbage" -> ThrownConfig
    [] c.kind \in {"null", "scalar"} -> NullConfig
    [] OTHER -> Config(c)

readCachedConfig(c) ==
  CASE c.kind \in {"absent", "empty"} -> NullConfig     \* bridge.ts 57
    [] c.kind = "garbage" -> NullConfig                  \* bridge.ts 62-64
    [] c.kind \in {"null", "scalar"} -> NullConfig       \* bridge.ts 60
    [] OTHER -> Config(c)                                \* bridge.ts 61

\* matchCurrentTab of ../utils, the domain-rule evaluator: a pure function
\* isEligible(rulePattern, candidateOrigin) -> boolean.
matchCurrentTab(rules, o) == rules = "rule-any" \/ (rules = "rule-a" /\ o = "https://a.test")

\* isEnabledForCurrentPage (bridge.ts 67-70).
isEnabledForCurrentPage(config, o) ==
  IF config.isNull \/ config.domainRules \in {Absent, ""} THEN FALSE
  ELSE matchCurrentTab(config.domainRules, o)

NoHost == [isNull |-> TRUE, host |-> urlHost("http", "", 0)]

\* Faulty variant of getTargetHost: the scheme is always https.
getTargetHostAlwaysSSL(config) ==
  IF config.isNull \/ ~config.serviceAddress.given THEN NoHost
  ELSE IF ~config.serviceAddress.ok THEN NoHost
  ELSE [isNull |-> FALSE,
        host |-> urlHost("https", config.serviceAddress.name, config.serviceAddress.port)]

\* getTargetHost (bridge.ts 72-85): null, or the host of scheme + address;
\* the path is cut off by the second `new URL(...).host`.
getTargetHost(config) ==
  IF config.isNull \/ ~config.serviceAddress.given THEN NoHost
  ELSE IF ~config.serviceAddress.ok THEN NoHost      \* bridge.ts 82-84
  ELSE LET scheme == IF config.enableSSL = "true" THEN "https" ELSE "http" IN
         [isNull |-> FALSE,
          host |-> urlHost(scheme, config.serviceAddress.name, config.serviceAddress.port)]

\* shouldProxyUrl (bridge.ts 126-132): "true", "false", or "threw" when an
\* exception escapes.
shouldProxyUrl(c, o, targetUrl) ==
  LET config == readCachedConfig(c) IN
    IF config.threw THEN "threw"
    ELSE IF ~isEnabledForCurrentPage(config, o) THEN "false"
    ELSE LET host == getTargetHost(config) IN
           IF host.isNull THEN "false"
           ELSE IF urlHost(targetUrl.scheme, targetUrl.name, targetUrl.port) = host.host
             THEN "true" ELSE "false"

\* The state in which the bridge runs: a configuration that enables the
\* page, and installBridge done.
EnabledCache == CacheItem("object", "rule-any", "true", Address("svc.test", 0, "", TRUE))
NotRouted == [api |-> "none", url |-> Url("https", "svc.test", 0), decision |-> "none",
              to |-> "none", layers |-> 0]

BridgeInit ==
  /\ nextFetch = 0
  /\ nextWs = 0
  /\ pendingFetches = <<>>
  /\ promise = [f \in FetchIds |-> NoPromise]
  /\ settles = [f \in FetchIds |-> 0]
  /\ socketMap = {}
  /\ readyState = [w \in WsIds |-> "none"]
  /\ last = NoCall
  /\ winQ = <<>>
  /\ swInbox = {}
  /\ swFetching = {}
  /\ swReplies = {}
  /\ replyCount = [f \in FetchIds |-> 0]
  /\ fetchResult = [f \in FetchIds |-> "none"]
  /\ wsPort = 0
  /\ portUp = <<>>
  /\ portDown = <<>>
  /\ relayPort = "none"
  /\ sockets = {}
  /\ realState = [w \in WsIds |-> "none"]
  /\ pageAlive = TRUE
  /\ ops = 0
  /\ lost = 0
  /\ emitted = [w \in WsIds |-> <<>>]
  /\ handled = [w \in WsIds |-> <<>>]

\* The page after its bootstrap called installBridge, with the bridge idle.
Installed ==
  /\ cache = EnabledCache
  /\ origin = "https://a.test"
  /\ marker = TRUE
  /\ listeners = {"handleBridgeMessage"}
  /\ windowFetch = 1
  /\ windowWebSocket = 1
  /\ installs = 1
  /\ routed = NotRouted

NoBody ==
  /\ body = NullBody
  /\ wire = PendingWire
  /\ rebuilt = PendingBody

Init == BridgeInit /\ Installed /\ NoBody /\ NoFrame

\* ------------------------------------------------- page: proxied fetch
\* genId (bridge.ts 380-382): a fresh id; ids are numbered in minting order.
genId(minted) == minted + 1

\* createProxiedFetch, the proxied branch up to the await (bridge.ts 151-169):
\* mint an id, register the resolvers under it, post the fetch-request.
ProxiedFetch ==
  /\ pageAlive
  /\ nextFetch < MaxOps
  /\ ops < MaxOps
  /\ ops' = ops + 1
  /\ LET requestId == genId(nextFetch) IN
       /\ nextFetch' = requestId
       /\ pendingFetches' = (requestId :> requestId) @@ pendingFetches
       /\ promise' = [promise EXCEPT ![requestId] = PendingPromise]
       /\ winQ' = Append(winQ, FetchRequestMsg(requestId))
       /\ last' = Call("fetch", requestId, "", "posted")
  /\ UNCHANGED <<nextWs, settles, socketMap, readyState, fetchVars, portVars,
                 relayVars, pageAlive, lost, auxVars>>

\* bridge.ts 110: data.error || (!data.payload?.ok && data.payload?.error)
errorMsg(data) ==
  IF data.error # "" THEN data.error
  ELSE IF data.payload.defined /\ data.payload.ok # "true" THEN data.payload.error
  ELSE ""

\* Faulty variant of settled: the continuation forgets the `payload.ok === false`
\* test of bridge.ts 172.
settledNoOkCheck(data) ==
  IF errorMsg(data) # ""
    THEN [state |-> "rejected", inner |-> "rejected", value |-> NoPayload,
          error |-> errorMsg(data), via |-> data.requestId]
  ELSE [state |-> "fulfilled", inner |-> "resolved", value |-> data.payload,
        error |-> "", via |-> data.requestId]

\* What the caller's promise becomes when the resolvers registered for a
\* call are invoked for `data`: bridge.ts 111-116 settle responsePromise,
\* and the continuation of the await (bridge.ts 171-181) settles the promise
\* the caller holds.
settled(data) ==
  IF errorMsg(data) # ""
    THEN [state |-> "rejected", inner |-> "rejected", value |-> NoPayload,
          error |-> errorMsg(data), via |-> data.requestId]
  ELSE IF ~data.payload.defined \/ data.payload.ok = "false"
    THEN [state |-> "rejected", inner |-> "resolved", value |-> NoPayload,
          error |-> IF data.payload.defined /\ data.payload.error # ""
                      THEN data.payload.error ELSE RequestFailed,
          via |-> data.requestId]
  ELSE [state |-> "fulfilled", inner |-> "resolved", value |-> data.payload,
        error |-> "", via |-> data.requestId]

\* Faulty variant of lookupPending: the oldest entry is taken, whatever the id.
lookupPendingOldest(table, id) ==
  IF DOMAIN table = {} THEN {}
  ELSE {table[CHOOSE k \in DOMAIN table : \A j \in DOMAIN table : k <= j]}

\* The entry handleBridgeMessage looks up (bridge.ts 106).
lookupPending(table, id) == IF id \in DOMAIN table THEN {table[id]} ELSE {}

\* Faulty variants of deletePending: the entry is kept; the whole table is cleared.
deletePendingKeep(table, id) == table
deletePendingClear(table, id) == <<>>

\* The table after bridge.ts 107.
deletePending(table, id) == [k \in (DOMAIN table) \ {id} |-> table[k]]

\* handleBridgeMessage, the fetch-response branch (bridge.ts 105-117).
handleFetchResponse(data) ==
  LET pending == lookupPending(pendingFetches, data.requestId) IN
    /\ pendingFetches' = deletePending(pendingFetches, data.requestId)
    /\ IF pending = {}
         THEN UNCHANGED <<promise, settles>>
         ELSE LET c == CHOOSE x \in pending : TRUE IN
                /\ settles' = [settles EXCEPT ![c] = @ + 1]
                /\ promise' = [promise EXCEPT ![c] =
                                 IF @.state = "pending" THEN settled(data) ELSE @]
    /\ UNCHANGED <<socketMap, readyState, handled>>

\* ------------------------------------------------ page: proxied socket
\* BridgeWebSocket constructor (bridge.ts 215-248): state connecting, the
\* instance registered under a new id, a ws-open message posted.  urlOk says
\* whether the relay's `new WebSocket(url, protocols)` will accept the
\* arguments.
NewWebSocket ==
  /\ pageAlive
  /\ nextWs < MaxSockets
  /\ ops < MaxOps
  /\ ops' = ops + 1
  /\ \E urlOk \in BOOLEAN :
       LET wsId == genId(nextWs) IN
         /\ nextWs' = wsId
         /\ socketMap' = socketMap \cup {wsId}
         /\ readyState' = [readyState EXCEPT ![wsId] = CONNECTING]
         /\ winQ' = Append(winQ, WsOpenMsg(wsId, urlOk))
         /\ last' = Call("new", wsId, "", "posted")
  /\ UNCHANGED <<nextFetch, pendingFetches, promise, settles, fetchVars, portVars,
                 relayVars, pageAlive, lost, auxVars>>

\* Faulty variant of sendAllowed: only a closed socket refuses.
sendAllowedUnlessClosed(rs) == rs # CLOSED

\* The test of bridge.ts 251, negated: send goes on only in this state.
sendAllowed(rs) == rs = OPEN

\* BridgeWebSocket.send (bridge.ts 250-258).
Send(w, d) ==
  /\ pageAlive
  /\ readyState[w] # "none"
  /\ ops < MaxOps
  /\ ops' = ops + 1
  /\ IF ~sendAllowed(readyState[w])
       THEN /\ last' = Call("send", w, d, "threw")
            /\ UNCHANGED winQ
       ELSE /\ last' = Call("send", w, d, "posted")
            /\ winQ' = Append(winQ, WsSendMsg(w, d))
  /\ UNCHANGED <<pageVars, fetchVars, portVars, relayVars, pageAlive, lost, auxVars>>

\* The early return of bridge.ts 261.
closeIsNoop(rs) == rs = CLOSED

\* Faulty variant of closeReadyState: closed is set at once.
closeReadyStateOptimistic(rs) == CLOSED

\* The assignment of bridge.ts 262.
closeReadyState(rs) == CLOSING

\* BridgeWebSocket.close (bridge.ts 260-273).
Close(w, code) ==
  /\ pageAlive
  /\ readyState[w] # "none"
  /\ ops < MaxOps
  /\ ops' = ops + 1
  /\ IF closeIsNoop(readyState[w])
       THEN /\ last' = Call("close", w, code, "returned")
            /\ UNCHANGED <<readyState, winQ>>
       ELSE /\ last' = Call("close", w, code, "posted")
            /\ readyState' = [readyState EXCEPT ![w] = closeReadyState(@)]
            /\ winQ' = Append(winQ, WsCloseMsg(w, code))
  /\ UNCHANGED <<nextFetch, nextWs, pendingFetches, promise, settles, socketMap,
                 fetchVars, portVars, relayVars, pageAlive, lost, auxVars>>

\* BridgeWebSocket.handleRemoteEvent (bridge.ts 275-308): the ready-state
\* and the socket table after the event.
remoteReadyState(rs, event) ==
  CASE event = "open" -> OPEN
    [] event = "close" -> CLOSED
    [] OTHER -> rs

remoteSocketMap(map, w, event) == IF event = "close" THEN map \ {w} ELSE map

\* handleBridgeMessage, the ws-event branch (bridge.ts 119-123).
handleWsEvent(data) ==
  LET w == data.payload.wsId IN
    /\ IF w \in socketMap
         THEN /\ readyState' = [readyState EXCEPT
                                  ![w] = remoteReadyState(@, data.payload.event)]
              /\ socketMap' = remoteSocketMap(socketMap, w, data.payload.event)
              /\ handled' = [handled EXCEPT ![w] = Append(@, data.payload.event)]
         ELSE UNCHANGED <<readyState, socketMap, handled>>
    /\ UNCHANGED <<pendingFetches, promise, settles>>

\* handleBridgeMessage (bridge.ts 101-124).
handleBridgeMessage(data) ==
  IF data.scope # BRIDGE_SCOPE
    THEN UNCHANGED <<pendingFetches, promise, settles, socketMap, readyState, handled>>
  ELSE IF data.type = FETCH_RESPONSE THEN handleFetchResponse(data)
  ELSE IF data.type = WS_EVENT THEN handleWsEvent(data)
  ELSE UNCHANGED <<pendingFetches, promise, settles, socketMap, readyState, handled>>

\* --------------------------------------------------- content script
\* ensureWsPort (part_000 53-72): the port in use after the call; a null
\* port is replaced by a fresh connection.
ensureWsPort(port) == IF port # 0 THEN port ELSE lost + 1

\* The relay end after ensureWsPort: chrome.runtime.onConnect (sw/index.ts
\* 73-76) accepts a fresh connection with a new, empty table.
connectRelay(port, relay) == IF port # 0 THEN relay ELSE "connected"

\* What the forwarder hands to chrome.runtime.sendMessage (part_000 81):
\* type and payload only, so the message carries no scope tag.  requestId is
\* not part of the message: it stands for the callback's closure.
RuntimeFetchMsg(msg) ==
  [scope |-> "absent", type |-> BRIDGE_FETCH, requestId |-> msg.requestId,
   url |-> msg.url]

\* The content script's window listener (part_000 74-102).
contentOnWindowMessage(msg) ==
  IF msg.scope # BRIDGE_SCOPE
    THEN UNCHANGED <<swInbox, wsPort, portUp, relayPort>>
  ELSE IF msg.type = BRIDGE_FETCH
    THEN /\ swInbox' = swInbox \cup {RuntimeFetchMsg(msg)}
         /\ UNCHANGED <<wsPort, portUp, relayPort>>
  ELSE IF msg.type \in {WS_OPEN, WS_SEND, WS_CLOSE}
    THEN /\ wsPort' = ensureWsPort(wsPort)
         /\ relayPort' = connectRelay(wsPort, relayPort)
         /\ portUp' = IF connectRelay(wsPort, relayPort) = "connected"
                        THEN Append(portUp, msg) ELSE portUp
         /\ UNCHANGED swInbox
  ELSE UNCHANGED <<swInbox, wsPort, portUp, relayPort>>

\* What handleBridgeMessage did with a message: which correlation id it
\* looked up and whether an entry was found.
dispatched(data) ==
  IF data.scope # BRIDGE_SCOPE THEN Call("message", 0, data.type, "ignored")
  ELSE IF data.type = FETCH_RESPONSE
    THEN Call("message", data.requestId, data.type,
              IF data.requestId \in DOMAIN pendingFetches THEN "settled" ELSE "dropped")
  ELSE IF data.type = WS_EVENT
    THEN Call("message", data.payload.wsId, data.type,
              IF data.payload.wsId \in socketMap THEN data.payload.event ELSE "dropped")
  ELSE Call("message", 0, data.type, "ignored")

\* One task of the page's event loop: the oldest window message is
\* dispatched to both 'message' listeners.
DeliverWindow ==
  /\ pageAlive
  /\ winQ # <<>>
  /\ handleBridgeMessage(Head(winQ))
  /\ contentOnWindowMessage(Head(winQ))
  /\ winQ' = Tail(winQ)
  /\ last' = dispatched(Head(winQ))
  /\ UNCHANGED <<nextFetch, nextWs, swFetching, swReplies, replyCount, fetchResult,
                 portDown, relayVars, pageAlive, ops, lost, idleVars, emitted>>

\* wsPort.onMessage (part_000 57-66): a port message becomes a ws-event
\* message on the window bus.
ContentOnPortMessage ==
  /\ pageAlive
  /\ wsPort # 0
  /\ portDown # <<>>
  /\ winQ' = Append(winQ, WsEventMsg(Head(portDown)))
  /\ portDown' = Tail(portDown)
  /\ last' = NoCall
  /\ UNCHANGED <<pageVars, fetchVars, wsPort, portUp, relayPort, relayVars,
                 pageAlive, ops, lost, auxVars>>

\* wsPort.onDisconnect (part_000 67-69): runs once the relay end is gone and
\* the messages it had sent are delivered.
ContentOnDisconnect ==
  /\ pageAlive
  /\ wsPort # 0
  /\ relayPort = "dead"
  /\ portDown = <<>>
  /\ wsPort' = 0
  /\ relayPort' = "none"
  /\ last' = NoCall
  /\ UNCHANGED <<pageVars, winQ, fetchVars, portUp, portDown, relayVars,
                 pageAlive, ops, lost, auxVars>>

\* The sendMessage callback (part_000 82-93): the reply, or lastError, goes
\* back to the page tagged with the request id the closure captured.
ContentFetchCallback(rep) ==
  /\ pageAlive
  /\ rep \in swReplies
  /\ swReplies' = swReplies \ {rep}
  /\ winQ' = Append(winQ, FetchResponseMsg(rep.requestId, rep.response, rep.lastError))
  /\ last' = NoCall
  /\ UNCHANGED <<pageVars, swInbox, swFetching, replyCount, fetchResult, portVars,
                 relayVars, pageAlive, ops, lost, auxVars>>

\* ------------------------------------------------------ relay: fetch
\* chrome.runtime.onMessage listener (sw/index.ts 63-71): the request is
\* taken and handleProxiedFetch started.
RelayOnMessage(req) ==
  /\ req \in swInbox
  /\ swInbox' = swInbox \ {req}
  /\ swFetching' = IF req.type # BRIDGE_FETCH THEN swFetching ELSE swFetching \cup {req}
  /\ last' = NoCall
  /\ UNCHANGED <<pageVars, winQ, swReplies, replyCount, fetchResult, portVars,
                 relayVars, pageAlive, ops, lost, auxVars>>

\* The reply of sw/index.ts 67 (success; the server echoes the url as the
\* body) and of sw/index.ts 68 (any failure of handleProxiedFetch).
successReply(req) == OkPayload(200, req.url)
failureReply(e) == ErrPayload(e)

\* Faulty variant of sendResponse: the .catch of sw/index.ts 68 is missing,
\* so a failure is never reported.
sendResponseOkOnly(replies, id, payload) ==
  IF payload.ok = "true"
    THEN replies \cup {[requestId |-> id, response |-> payload, lastError |-> ""]}
  ELSE replies

\* sendResponse (sw/index.ts 67-68): the reply reaches the callback the
\* content script passed to sendMessage.
sendResponse(replies, id, payload) ==
  replies \cup {[requestId |-> id, response |-> payload, lastError |-> ""]}

\* handleProxiedFetch settles (sw/index.ts 66-68, 193-221): one sendResponse.
RelayFetchDone(req) ==
  /\ req \in swFetching
  /\ swFetching' = swFetching \ {req}
  /\ replyCount' = [replyCount EXCEPT ![req.requestId] = @ + 1]
  /\ \/ /\ fetchResult' = [fetchResult EXCEPT ![req.requestId] = "ok"]
        /\ swReplies' = sendResponse(swReplies, req.requestId, successReply(req))
     \/ \E e \in ErrMsgs :
        /\ fetchResult' = [fetchResult EXCEPT ![req.requestId] = "failed"]
        /\ swReplies' = sendResponse(swReplies, req.requestId, failureReply(e))
  /\ last' = NoCall
  /\ UNCHANGED <<pageVars, winQ, swInbox, portVars, relayVars, pageAlive, ops, lost, auxVars>>

\* ---------------------------------------------------- relay: sockets
\* Faulty variant of portPost: the newest message overtakes the queued ones.
portPostFront(q, evs) == IF relayPort = "connected" THEN evs \o q ELSE q

\* port.postMessage from a relay callback: queued while the channel is up.
\* On a disconnected port the call throws and nothing is sent.
portPost(q, evs) == IF relayPort = "connected" THEN q \o evs ELSE q

\* The record of what was posted: the events of one callback all carry the
\* same socket id.
logPost(log, evs) ==
  IF relayPort # "connected" \/ evs = <<>> THEN log
  ELSE [log EXCEPT ![evs[1].wsId] = @ \o [i \in 1..Len(evs) |-> evs[i].event]]

\* A relay callback posts evs on the channel.
post(evs) ==
  /\ portDown' = portPost(portDown, evs)
  /\ emitted' = logPost(emitted, evs)

\* WebSocket.close() on a real socket: connecting and open sockets start
\* closing, others stay as they are.
realClose(st) == IF st \in {CONNECTING, OPEN} THEN CLOSING ELSE st

\* cleanupSocket (sw/index.ts 78-87): the real states and the table after it.
cleanupState(tbl, st, w) == IF w \in tbl THEN [st EXCEPT ![w] = realClose(@)] ELSE st
cleanupTable(tbl, w) == tbl \ {w}

\* port.onMessage, case WS_OPEN (sw/index.ts 94-139).
relayWsOpen(msg) ==
  IF msg.urlOk
    THEN /\ realState' = [realState EXCEPT ![msg.wsId] = CONNECTING]
         /\ sockets' = sockets \cup {msg.wsId}
         /\ post(<<>>)
    ELSE /\ post(<<WsEvent(msg.wsId, "error", "none")>>)
         /\ UNCHANGED <<realState, sockets>>

\* Faulty variant of relaySendRefused: only a missing socket is refused.
relaySendRefusedIfMissing(tbl, st, w) == w \notin tbl

\* The test of sw/index.ts 142.
relaySendRefused(tbl, st, w) == w \notin tbl \/ st[w] # OPEN

\* port.onMessage, case WS_SEND (sw/index.ts 140-160): ws.send on an open
\* socket does not throw.
relayWsSend(msg) ==
  /\ IF relaySendRefused(sockets, realState, msg.wsId)
       THEN post(<<WsEvent(msg.wsId, "error", "none")>>)
       ELSE post(<<>>)
  /\ UNCHANGED <<realState, sockets>>

\* What the relay did about a port message: for a ws-send, the real socket
\* ws.send was called on and the data passed to it, or the refusal.
relayDid(msg) ==
  IF msg.type # WS_SEND THEN NoCall
  ELSE Call("ws.send", msg.wsId, msg.data,
            IF relaySendRefused(sockets, realState, msg.wsId) THEN "error" ELSE "sent")

\* port.onMessage, case WS_CLOSE (sw/index.ts 161-175): close with the given
\* code (an invalid code makes close throw: error event), then cleanupSocket.
relayWsClose(msg) ==
  LET w == msg.wsId
      closeThrew == w \in sockets /\ msg.code = "invalid"
      closed == IF w \in sockets /\ ~closeThrew
                  THEN [realState EXCEPT ![w] = realClose(@)] ELSE realState
  IN /\ post(IF closeThrew THEN <<WsEvent(w, "error", "none")>> ELSE <<>>)
     /\ realState' = cleanupState(sockets, closed, w)
     /\ sockets' = cleanupTable(sockets, w)

\* port.onMessage listener (sw/index.ts 89-179).
RelayOnPortMessage ==
  /\ relayPort = "connected"
  /\ portUp # <<>>
  /\ LET msg == Head(portUp) IN
       CASE msg.type = WS_OPEN -> relayWsOpen(msg)
         [] msg.type = WS_SEND -> relayWsSend(msg)
         [] msg.type = WS_CLOSE -> relayWsClose(msg)
         [] OTHER -> UNCHANGED <<portDown, emitted, realState, sockets>>
  /\ portUp' = Tail(portUp)
  /\ last' = relayDid(Head(portUp))
  /\ UNCHANGED <<pageVars, winQ, fetchVars, wsPort, relayPort, pageAlive, ops, lost,
                 idleVars, handled>>

\* ws.onopen (sw/index.ts 98-100).
RealOnOpen(w) ==
  /\ realState[w] = CONNECTING
  /\ realState' = [realState EXCEPT ![w] = OPEN]
  /\ post(<<WsEvent(w, "open", "none")>>)
  /\ last' = NoCall
  /\ UNCHANGED <<pageVars, winQ, fetchVars, wsPort, portUp, relayPort, sockets,
                 pageAlive, ops, lost, idleVars, handled>>

\* The remote end starts the closing handshake: the real socket's
\* readyState is CLOSING from then until ws.onclose runs, and the socket is
\* still in the table (what the test of sw/index.ts 142 is for).
RealClosing(w) ==
  /\ realState[w] = OPEN
  /\ realState' = [realState EXCEPT ![w] = CLOSING]
  /\ last' = NoCall
  /\ UNCHANGED <<pageVars, winQ, fetchVars, portVars, sockets, pageAlive, ops, lost,
                 auxVars>>

\* ws.onmessage (sw/index.ts 101-109): text as it is, an ArrayBuffer as
\* bytes, anything else (the real socket's binaryType is never set, so a
\* binary frame is a Blob) as null.
relayFrameData(frame) == IF frame = "text" THEN "text" ELSE "null"

RealOnMessage(w, frame) ==
  /\ realState[w] = OPEN
  /\ ops < MaxOps
  /\ ops' = ops + 1
  /\ post(<<WsEvent(w, "message", relayFrameData(frame))>>)
  /\ last' = NoCall
  /\ UNCHANGED <<pageVars, winQ, fetchVars, wsPort, portUp, relayPort, relayVars,
                 pageAlive, lost, idleVars, handled>>

\* Faulty variant of oncloseTable: ws.onclose forgets cleanupSocket.
oncloseTableKeep(tbl, w) == tbl

\* The events ws.onclose emits and the table it leaves (sw/index.ts
\* 119-128); on a disconnected port postMessage throws before cleanupSocket.
oncloseTable(tbl, w) == IF relayPort = "connected" THEN cleanupTable(tbl, w) ELSE tbl

\* The real connection ends (sw/index.ts 110-128): when it failed, ws.onerror
\* runs first; ws.onclose posts the close event and calls cleanupSocket.
RealOnClose(w, failed) ==
  /\ realState[w] \in {CONNECTING, OPEN, CLOSING}
  /\ realState[w] = CONNECTING => failed
  /\ realState' = [realState EXCEPT ![w] = CLOSED]
  /\ post((IF failed THEN <<WsEvent(w, "error", "none")>> ELSE <<>>)
          \o <<WsEvent(w, "close", "none")>>)
  /\ sockets' = oncloseTable(sockets, w)
  /\ last' = NoCall
  /\ UNCHANGED <<pageVars, winQ, fetchVars, wsPort, portUp, relayPort, pageAlive, ops,
                 lost, idleVars, handled>>

\* Faulty variant of disconnectStates: the table is cleared without closing.
disconnectStatesKeep(tbl, st) == st

\* The states after every socket of the table was closed (sw/index.ts 182-188).
disconnectStates(tbl, st) ==
  [w \in WsIds |-> IF w \in tbl THEN realClose(st[w]) ELSE st[w]]

\* The table after sw/index.ts 189.
disconnectTable(tbl) == {}

\* port.onDisconnect (sw/index.ts 181-190): the page end of the channel is
\* gone and every message it had sent was handled.
RelayOnDisconnect ==
  /\ ~pageAlive
  /\ relayPort = "connected"
  /\ portUp = <<>>
  /\ realState' = disconnectStates(sockets, realState)
  /\ sockets' = disconnectTable(sockets)
  /\ relayPort' = "disconnected"
  /\ last' = NoCall
  /\ UNCHANGED <<pageVars, winQ, fetchVars, wsPort, portUp, portDown, pageAlive, ops, lost, auxVars>>

\* ------------------------------------------------------- environment
\* The page navigates away: its context, the window bus and the content
\* script go; the channel's page end closes.
PageGone ==
  /\ pageAlive
  /\ pageAlive' = FALSE
  /\ winQ' = <<>>
  /\ portDown' = <<>>
  /\ swReplies' = {}
  /\ last' = NoCall
  /\ UNCHANGED <<pageVars, swInbox, swFetching, replyCount, fetchResult, wsPort,
                 portUp, relayPort, relayVars, ops, lost, auxVars>>

\* The relay's execution context is terminated (service worker stopped):
\* its table and real sockets go with it, messages on their way to it are
\* lost, and every sendMessage whose fetch was running gets lastError.
RelayTerminated ==
  /\ pageAlive
  /\ relayPort \in {"none", "connected"}
  /\ ops < MaxOps
  /\ ops' = ops + 1
  /\ lost' = IF relayPort = "connected" THEN lost + 1 ELSE lost
  /\ relayPort' = IF relayPort = "connected" THEN "dead" ELSE relayPort
  /\ portUp' = <<>>
  /\ sockets' = {}
  /\ realState' = [w \in WsIds |-> IF realState[w] = "none" THEN "none" ELSE "gone"]
  /\ swFetching' = {}
  /\ swReplies' = swReplies \cup
       {[requestId |-> r.requestId, response |-> NoPayload, lastError |-> LastErrorMsg] :
          r \in swFetching}
  /\ last' = NoCall
  /\ UNCHANGED <<pageVars, winQ, swInbox, replyCount, fetchResult, wsPort, portDown,
                 pageAlive, auxVars>>

\* Some other script posts a fetch-response on the shared window bus: for
\* an id that was never minted, or a copy of one already answered.
StrayResponse ==
  /\ pageAlive
  /\ ops < MaxOps
  /\ ops' = ops + 1
  /\ \E id \in {StrayId} \cup {f \in FetchIds : promise[f].state \in {"fulfilled", "rejected"}},
        payload \in {OkPayload(200, 0), ErrPayload("Failed to fetch")} :
       winQ' = Append(winQ, FetchResponseMsg(id, payload, ""))
  /\ last' = NoCall
  /\ UNCHANGED <<pageVars, fetchVars, portVars, relayVars, pageAlive, lost, auxVars>>

\* Some other script posts a message on the shared window bus that has a
\* type of the protocol and ids now in use, but not the scope tag.
ForeignWindowMessage ==
  /\ pageAlive
  /\ ops < MaxOps
  /\ ops' = ops + 1
  /\ \E f \in {StrayId} \cup DOMAIN pendingFetches, w \in WsIds :
       \E m \in {FetchRequestMsg(f), FetchResponseMsg(f, OkPayload(200, 0), ""),
                  WsOpenMsg(w, TRUE), WsSendMsg(w, "d1"), WsCloseMsg(w, "valid"),
                  WsEventMsg(WsEvent(w, "close", "none"))} :
         winQ' = Append(winQ, [m EXCEPT !.scope = "other"])
  /\ last' = NoCall
  /\ UNCHANGED <<pageVars, fetchVars, portVars, relayVars, pageAlive, lost, auxVars>>

Next ==
  \/ ProxiedFetch
  \/ NewWebSocket
  \/ \E w \in WsIds, d \in Data : Send(w, d)
  \/ \E w \in WsIds, code \in CloseCodes : Close(w, code)
  \/ DeliverWindow
  \/ ContentOnPortMessage
  \/ ContentOnDisconnect
  \/ \E rep \in swReplies : ContentFetchCallback(rep)
  \/ \E req \in swInbox : RelayOnMessage(req)
  \/ \E req \in swFetching : RelayFetchDone(req)
  \/ RelayOnPortMessage
  \/ \E w \in WsIds : RealOnOpen(w)
  \/ \E w \in WsIds, frame \in Frames : RealOnMessage(w, frame)
  \/ \E w \in WsIds : RealClosing(w)
  \/ \E w \in WsIds, failed \in BOOLEAN : RealOnClose(w, failed)
  \/ RelayOnDisconnect
  \/ PageGone
  \/ RelayTerminated
  \/ StrayResponse
  \/ ForeignWindowMessage

Spec == Init /\ [][Next]_vars

\* The fetch path alone: no socket is constructed.
NextFetch ==
  \/ ProxiedFetch
  \/ DeliverWindow
  \/ \E rep \in swReplies : ContentFetchCallback(rep)
  \/ \E req \in swInbox : RelayOnMessage(req)
  \/ \E req \in swFetching : RelayFetchDone(req)
  \/ PageGone
  \/ RelayTerminated
  \/ StrayResponse

FetchSpec == Init /\ [][NextFetch]_vars

\* The fetch path with its scheduling: a posted window message is
\* dispatched, a one-shot message reaches the relay (which is started for
\* it), the real fetch ends, and a sendMessage callback runs.
FetchFairSpec ==
  /\ FetchSpec
  /\ WF_vars(DeliverWindow)
  /\ WF_vars(\E rep \in swReplies : ContentFetchCallback(rep))
  /\ WF_vars(\E req \in swInbox : RelayOnMessage(req))
  /\ WF_vars(\E req \in swFetching : RelayFetchDone(req))

\* The socket path alone: no fetch is proxied.
NextWs ==
  \/ NewWebSocket
  \/ \E w \in WsIds, d \in Data : Send(w, d)
  \/ \E w \in WsIds, code \in CloseCodes : Close(w, code)
  \/ DeliverWindow
  \/ ContentOnPortMessage
  \/ ContentOnDisconnect
  \/ RelayOnPortMessage
  \/ \E w \in WsIds : RealOnOpen(w)
  \/ \E w \in WsIds, frame \in Frames : RealOnMessage(w, frame)
  \/ \E w \in WsIds : RealClosing(w)
  \/ \E w \in WsIds, failed \in BOOLEAN : RealOnClose(w, failed)
  \/ RelayOnDisconnect
  \/ PageGone
  \/ RelayTerminated

WsSpec == Init /\ [][NextWs]_vars

\* The fetch path beside a socket that is opened and never closed.
NextFetchBesideSocket ==
  \/ ProxiedFetch
  \/ NewWebSocket
  \/ DeliverWindow
  \/ ContentOnPortMessage
  \/ \E rep \in swReplies : ContentFetchCallback(rep)
  \/ \E req \in swInbox : RelayOnMessage(req)
  \/ \E req \in swFetching : RelayFetchDone(req)
  \/ RelayOnPortMessage
  \/ \E w \in WsIds : RealOnOpen(w)
  \/ PageGone
  \/ RelayTerminated
  \/ StrayResponse

FetchBesideSocketSpec == Init /\ [][NextFetchBesideSocket]_vars

\* Both paths with foreign traffic on the window bus.
NextScope ==
  \/ ProxiedFetch
  \/ NewWebSocket
  \/ DeliverWindow
  \/ ContentOnPortMessage
  \/ \E rep \in swReplies : ContentFetchCallback(rep)
  \/ \E req \in swInbox : RelayOnMessage(req)
  \/ \E req \in swFetching : RelayFetchDone(req)
  \/ RelayOnPortMessage
  \/ \E w \in WsIds : RealOnOpen(w)
  \/ ForeignWindowMessage

ScopeSpec == Init /\ [][NextScope]_vars

\* Fetches beside sockets that the remote end opens, fails and closes.
NextCorrelation ==
  \/ ProxiedFetch
  \/ NewWebSocket
  \/ DeliverWindow
  \/ ContentOnPortMessage
  \/ \E rep \in swReplies : ContentFetchCallback(rep)
  \/ \E req \in swInbox : RelayOnMessage(req)
  \/ \E req \in swFetching : RelayFetchDone(req)
  \/ RelayOnPortMessage
  \/ \E w \in WsIds : RealOnOpen(w)
  \/ \E w \in WsIds, failed \in BOOLEAN : RealOnClose(w, failed)
  \/ RelayTerminated

CorrelationSpec == Init /\ [][NextCorrelation]_vars

\* ------------------------------------------------------- installation
\* The test of bridge.ts 89.
installGuardNever(m) == FALSE

installGuard(m) == m

\* window.addEventListener (bridge.ts 92): a listener already registered
\* with the same function is not added again.
addEventListener(ls, fn) == ls \cup {fn}

\* installBridge (bridge.ts 87-99): the originals captured are what
\* window.fetch and window.WebSocket are at that moment, and the proxies
\* put in their place wrap them.
InstallBridge ==
  /\ installs < MaxInstalls
  /\ installs' = installs + 1
  /\ IF installGuard(marker)
       THEN UNCHANGED <<marker, listeners, windowFetch, windowWebSocket>>
       ELSE /\ marker' = TRUE
            /\ listeners' = addEventListener(listeners, "handleBridgeMessage")
            /\ windowFetch' = windowFetch + 1
            /\ windowWebSocket' = windowWebSocket + 1
  /\ UNCHANGED <<bridgeVars, bodyVars, frameVars, logVars, cache, origin, routed>>

\* Where a call through `layers` proxy layers ends (bridge.ts 147-149,
\* 194-197): the top layer proxies an eligible URL; an ineligible one is
\* handed to the original each layer captured, down to the native one.
route(api, layers, url) ==
  IF layers = 0
    THEN [api |-> api, url |-> url, decision |-> "none", to |-> "native", layers |-> 0]
  ELSE LET d == shouldProxyUrl(cache, origin, url) IN
         [api |-> api, url |-> url, decision |-> d,
          to |-> CASE d = "true" -> "proxied" [] d = "false" -> "native" [] OTHER -> "threw",
          layers |-> IF d = "false" THEN layers ELSE 1]

\* The page calls fetch(url) (bridge.ts 139-149, the routing only).
RouteFetch(url) ==
  /\ routed' = route("fetch", windowFetch, url)
  /\ UNCHANGED <<bridgeVars, bodyVars, frameVars, logVars, cache, origin, marker, listeners, windowFetch,
                 windowWebSocket, installs>>

\* The page calls new WebSocket(url) (bridge.ts 186-198, the routing only).
RouteWebSocket(url) ==
  /\ routed' = route("WebSocket", windowWebSocket, url)
  /\ UNCHANGED <<bridgeVars, bodyVars, frameVars, logVars, cache, origin, marker, listeners, windowFetch,
                 windowWebSocket, installs>>

\* The page before its bootstrap ran, with any cached configuration.
InstallInit ==
  /\ BridgeInit
  /\ NoBody
  /\ NoFrame
  /\ cache \in Caches
  /\ origin \in Origins
  /\ marker = FALSE
  /\ listeners = {}
  /\ windowFetch = 0
  /\ windowWebSocket = 0
  /\ installs = 0
  /\ routed = NotRouted

NextInstall ==
  \/ InstallBridge
  \/ \E url \in Urls : RouteFetch(url)
  \/ \E url \in Urls : RouteWebSocket(url)

InstallSpec == InstallInit /\ [][NextInstall]_vars

\* -------------------------------------------------- body round trip
\* serializeInit on the page (bridge.ts 324-337): the body is serialized
\* for the fetch-request message.
SerializeBody ==
  /\ wire = PendingWire
  /\ wire' = serializeBody(body)
  /\ UNCHANGED <<bridgeVars, installVars, frameVars, logVars, body, rebuilt>>

\* handleProxiedFetch on the relay (sw/index.ts 207-209): the body of the
\* real request is rebuilt.
DeserializeBody ==
  /\ wire # PendingWire
  /\ rebuilt = PendingBody
  /\ rebuilt' = deserializeBody(wire)
  /\ UNCHANGED <<bridgeVars, installVars, frameVars, logVars, body, wire>>

\* A proxied fetch is about to be made with any body.
BodyInit ==
  /\ BridgeInit
  /\ Installed
  /\ NoFrame
  /\ body \in Bodies
  /\ wire = PendingWire
  /\ rebuilt = PendingBody

NextBody ==
  \/ SerializeBody
  \/ DeserializeBody

BodySpec == BodyInit /\ [][NextBody]_vars

\* ------------------------------------------ incoming frames: the steps
\* The page assigns ws.binaryType (the field of bridge.ts 218).
SetBinaryType(t) ==
  /\ binaryType # t
  /\ binaryType' = t
  /\ UNCHANGED <<bridgeVars, installVars, bodyVars, logVars, rxFrame, portData, winData,
                 eventData>>

\* The real socket receives a frame and ws.onmessage posts the message
\* event on the port (sw/index.ts 101-109).
RealOnFrame(f) ==
  /\ portData = NoData
  /\ winData = NoData
  /\ rxFrame' = f
  /\ portData' = onmessageData(frameEventData(f, realBinaryType))
  /\ UNCHANGED <<bridgeVars, installVars, bodyVars, logVars, binaryType, winData,
                 eventData>>

\* wsPort.onMessage (part_000 57-66): the port message, as the port carried
\* it, becomes the payload of a ws-event on the window bus.
ContentOnFrameEvent(codec) ==
  /\ portData # NoData
  /\ winData' = portCarried(portData, codec)
  /\ portData' = NoData
  /\ UNCHANGED <<bridgeVars, installVars, bodyVars, logVars, rxFrame, binaryType,
                 eventData>>

\* handleRemoteEvent, case 'message' (bridge.ts 281-289): the MessageEvent
\* handed to onmessage and the listeners.
HandleMessageEvent ==
  /\ winData # NoData
  /\ eventData' = messageEventData(winData, binaryType)
  /\ winData' = NoData
  /\ UNCHANGED <<bridgeVars, installVars, bodyVars, logVars, rxFrame, binaryType,
                 portData>>

\* An open proxied socket receiving frames, one in flight at a time.
NextFrame ==
  \/ \E t \in BinaryTypes : SetBinaryType(t)
  \/ \E f \in FramesIn : RealOnFrame(f)
  \/ \E codec \in PortCodecs : ContentOnFrameEvent(codec)
  \/ HandleMessageEvent

FrameSpec == Init /\ [][NextFrame]_vars

\* ------------------------------------------------------------ claims
Settled(f) == promise[f].state \in {"fulfilled", "rejected"}

\* The fetch-response messages for request id f now on the window bus.
ResponsesInFlight(f) ==
  {i \in 1..Len(winQ) : winQ[i].type = FETCH_RESPONSE /\ winQ[i].requestId = f}

\* C1: the resolvers of a proxied fetch are invoked at most once, a settled
\* call's id is no longer in pendingFetches, and an id that is in
\* pendingFetches belongs to a call that is still unsettled.
C1_AtMostOnce ==
  \A f \in FetchIds :
    /\ settles[f] <= 1
    /\ Settled(f) => settles[f] = 1 /\ f \notin DOMAIN pendingFetches
    /\ f \in DOMAIN pendingFetches =>
         /\ promise[pendingFetches[f]].state = "pending"
         /\ promise[pendingFetches[f]].inner = "pending"
         /\ settles[pendingFetches[f]] = 0

\* A call was settled and a second response for its id was handled after that.
C1_Witness ==
  \E f \in FetchIds :
    /\ last = Call("message", f, FETCH_RESPONSE, "dropped")
    /\ promise[f].state = "fulfilled"
    /\ settles[f] = 1

\* C2: whatever the order of the responses, a call is settled by the
\* message carrying its own request id, and a fulfilled call holds the
\* payload the relay produced for its own request (the body echoes its url).
C2_OwnResponse ==
  \A f \in FetchIds :
    /\ Settled(f) => promise[f].via = f
    /\ promise[f].state = "fulfilled" =>
         promise[f].value = OkPayload(200, FetchRequestMsg(f).url)

\* Two fetches outstanding at once, the later one answered first.
C2_Witness ==
  /\ nextFetch >= 2
  /\ promise[2].state = "fulfilled"
  /\ promise[1].state = "pending"
  /\ ResponsesInFlight(1) # {}

\* C3: handling a fetch-response whose requestId is not in pendingFetches
\* settles nothing, throws nothing and leaves both tables and every socket
\* as they were.
C3_UnmatchedIsNoop ==
  [][(/\ pageAlive
      /\ winQ # <<>>
      /\ Head(winQ).type = FETCH_RESPONSE
      /\ Head(winQ).requestId \notin DOMAIN pendingFetches
      /\ winQ' = Tail(winQ))
     => /\ UNCHANGED <<pendingFetches, promise, settles, socketMap, readyState>>
        /\ last'.note # "threw"]_vars

\* A response for an id nobody waits for was handled while a fetch was
\* pending and a socket registered.
C3_Witness ==
  /\ last.op = "message" /\ last.arg = FETCH_RESPONSE /\ last.note = "dropped"
  /\ DOMAIN pendingFetches # {}
  /\ socketMap # {}

\* C4: the relay answers a request once, when its real fetch ended, with
\* ok:true after a success and ok:false after a failure; a call whose real
\* fetch failed is never fulfilled, and stays pending only while the reply
\* is still on its way to the page.
RepliesFor(f) == {rep \in swReplies : rep.requestId = f /\ rep.lastError = ""}

C4_FailuresReject ==
  \A f \in FetchIds :
    /\ replyCount[f] <= 1
    /\ (fetchResult[f] # "none") <=> (replyCount[f] = 1)
    /\ \A rep \in RepliesFor(f) :
         /\ rep.response.defined
         /\ (rep.response.ok = "true") <=> (fetchResult[f] = "ok")
         /\ (rep.response.ok = "false") <=> (fetchResult[f] = "failed")
    /\ fetchResult[f] = "failed" =>
         /\ promise[f].state \in {"pending", "rejected"}
         /\ (promise[f].state = "pending" /\ pageAlive) =>
              (RepliesFor(f) # {} \/ ResponsesInFlight(f) # {})

\* A real fetch failed with an empty message and the caller's promise was
\* rejected all the same.
C4_Witness ==
  \E f \in FetchIds :
    /\ fetchResult[f] = "failed"
    /\ promise[f].state = "rejected"
    /\ promise[f].error = RequestFailed

\* C5: send on a socket that is not open throws and posts nothing; on an
\* open socket it posts exactly one ws-send message with the socket's id
\* and the data given; neither changes any ready-state.
C5_SendGuard ==
  [][\A w \in WsIds :
       (last'.op = "send" /\ last'.id = w) =>
         /\ readyState' = readyState
         /\ IF readyState[w] = OPEN
              THEN /\ last'.note = "posted"
                   /\ winQ' = Append(winQ, WsSendMsg(w, last'.arg))
              ELSE /\ last'.note = "threw"
                   /\ winQ' = winQ]_vars

\* send was called before any open event arrived, and threw.
C5_Witness ==
  \E w \in WsIds :
    /\ last.op = "send" /\ last.id = w /\ last.note = "threw"
    /\ readyState[w] = CONNECTING

\* C6: close on a socket an earlier close left closing, or that is closed,
\* changes no state, posts no message and does not throw.
C6_SecondCloseNoop ==
  [][\A w \in WsIds :
       (last'.op = "close" /\ last'.id = w /\ readyState[w] \in {CLOSING, CLOSED}) =>
         /\ winQ' = winQ
         /\ readyState' = readyState
         /\ socketMap' = socketMap
         /\ last'.note # "threw"]_vars

\* The window dispatch now under way hands socket w the remote event ev.
RemoteEventStep(w, ev) ==
  /\ pageAlive
  /\ winQ # <<>>
  /\ Head(winQ).scope = BRIDGE_SCOPE
  /\ Head(winQ).type = WS_EVENT
  /\ Head(winQ).payload.wsId = w
  /\ Head(winQ).payload.event = ev
  /\ winQ' = Tail(winQ)

\* C7: a socket is born connecting; its ready-state turns open or closed
\* only in the dispatch of an open or close event for its id; the page's
\* own calls never set open or closed, and close on a socket that is not
\* closed sets closing, posts one ws-close message and does nothing else.
C7_RemoteOnly ==
  [][\A w \in WsIds :
       /\ (readyState[w] = "none" /\ readyState'[w] # "none") =>
            (readyState'[w] = CONNECTING /\ last'.op = "new" /\ last'.id = w)
       /\ (readyState'[w] = OPEN /\ readyState[w] # OPEN) => RemoteEventStep(w, "open")
       /\ (readyState'[w] = CLOSED /\ readyState[w] # CLOSED) => RemoteEventStep(w, "close")
       /\ (last'.op = "close" /\ last'.id = w /\ readyState[w] # CLOSED) =>
            /\ readyState' = [readyState EXCEPT ![w] = CLOSING]
            /\ winQ' = Append(winQ, WsCloseMsg(w, last'.arg))
            /\ socketMap' = socketMap]_vars

\* An open event was dispatched to a socket, which is now open.
C7_Witness ==
  \E w \in WsIds :
    /\ last = Call("message", w, WS_EVENT, "open")
    /\ readyState[w] = OPEN

\* C8: a socket whose close event the page has processed is closed and its
\* id is in neither the page's socket table nor the relay's.
C8_ClosedEverywhere ==
  \A w \in WsIds :
    readyState[w] = CLOSED => (w \notin socketMap /\ w \notin sockets)

\* The close event of a socket the page never closed was just processed.
C8_Witness ==
  \E w \in WsIds :
    /\ last = Call("message", w, WS_EVENT, "close")
    /\ readyState[w] = CLOSED
    /\ realState[w] = CLOSED

\* C9: once the relay handled the channel's disconnect its table is empty
\* and no real socket is connecting or open.
C9_DisconnectCleanup ==
  relayPort = "disconnected" =>
    /\ sockets = {}
    /\ \A w \in WsIds : realState[w] \notin {CONNECTING, OPEN}

\* The disconnect force-closed a real socket the page had never closed.
C9_Witness ==
  /\ relayPort = "disconnected"
  /\ \E w \in WsIds : readyState[w] = CONNECTING /\ realState[w] = CLOSING

\* No handler of the socket path has anything left to do: every message
\* and event already produced has been handled.
Quiescent ==
  ~ENABLED (\/ DeliverWindow
            \/ ContentOnPortMessage
            \/ ContentOnDisconnect
            \/ RelayOnPortMessage
            \/ RelayOnDisconnect
            \/ \E w \in WsIds : RealOnOpen(w)
            \/ \E w \in WsIds, frame \in Frames : RealOnMessage(w, frame)
            \/ \E w \in WsIds, failed \in BOOLEAN : RealOnClose(w, failed))

\* C10: once the channel is lost and every message and event already
\* produced has been handled, each socket the lost channel backed is closed
\* and out of the page's socket table.
C10_TornDownAfterLoss ==
  (pageAlive /\ lost > 0 /\ Quiescent)
  => \A w \in WsIds :
       realState[w] = "gone" => (readyState[w] = CLOSED /\ w \notin socketMap)

\* C11: a step that handles a message without the scope tag -- a window
\* dispatch, or the relay taking a one-shot message -- starts no fetch,
\* touches no socket, changes no table and posts nothing.
C11_UnscopedIgnored ==
  [][/\ (/\ pageAlive'
         /\ winQ # <<>>
         /\ Head(winQ).scope # BRIDGE_SCOPE
         /\ winQ' = Tail(winQ))
        => UNCHANGED <<pageVars, fetchVars, portVars, relayVars>>
     /\ \A req \in swInbox :
          (req.scope # BRIDGE_SCOPE /\ swInbox' = swInbox \ {req})
            => UNCHANGED <<swFetching, swReplies, replyCount, fetchResult>>]_vars

\* The URL's host is the host of the configured service: the address's host
\* name, with its port unless that is the default of the configured scheme.
ServiceHostIs(c, u) ==
  LET a == c.serviceAddress
      urlPort == IF (u.scheme = "http" /\ u.port = 80)
                    \/ (u.scheme \in {"https", "wss"} /\ u.port = 443) THEN 0 ELSE u.port
      svcPort == IF (c.enableSSL = "true" /\ a.port = 443)
                    \/ (c.enableSSL # "true" /\ a.port = 80) THEN 0 ELSE a.port
  IN a.given /\ a.ok /\ u.name = a.name /\ urlPort = svcPort

\* C12: shouldProxyUrl answers true exactly when the cache holds a
\* configuration object whose domain rule matches the page and whose
\* service host is the URL's host; in every other case it answers false,
\* and no exception escapes it.
C12_ShouldProxyExact ==
  routed.decision # "none" =>
    /\ routed.decision \in {"true", "false"}
    /\ (routed.decision = "true") <=>
         /\ cache.kind = "object"
         /\ cache.domainRules \in Rules
         /\ matchCurrentTab(cache.domainRules, origin)
         /\ ServiceHostIs(cache, routed.url)

\* A URL that spells out the default port was found eligible for a service
\* address that does not.
C12_Witness ==
  /\ routed.decision = "true"
  /\ routed.url.port = 443
  /\ cache.serviceAddress.port = 0

\* C14: once installBridge ran, however often, there is one bridge
\* listener, one proxy layer on fetch and on WebSocket, and a call that is
\* passed through went through that one layer only.
C14_InstallIdempotent ==
  installs >= 1 =>
    /\ marker
    /\ Cardinality(listeners) = 1
    /\ windowFetch = 1
    /\ windowWebSocket = 1
    /\ routed.layers <= 1

\* installBridge ran twice and an ineligible fetch was passed through.
C14_Witness ==
  /\ installs = 2
  /\ routed.api = "fetch"
  /\ routed.to = "native"
  /\ routed.layers = 1

\* What a body is made of: its text or bytes, and for a form its fields in
\* order with their names and mime types.
content(b) ==
  CASE b.kind \in {"null", "undefined"} -> [form |-> "empty"]
    [] b.kind \in {"string", "URLSearchParams"} ->
         IF b.value = "" THEN [form |-> "empty"] ELSE [form |-> "text", text |-> b.value]
    [] b.kind \in {"ArrayBuffer", "Uint8Array"} -> [form |-> "bytes", bytes |-> b.bytes]
    [] b.kind = "view" -> [form |-> "bytes", bytes |-> viewBytes(b)]
    [] b.kind = "Blob" -> [form |-> "blob", bytes |-> b.bytes, mime |-> b.mime]
    [] b.kind = "FormData" -> [form |-> "form", fields |-> b.fields]
    [] OTHER -> [form |-> "unsupported"]

\* C13: for every body the serializer accepts, the body the relay rebuilds
\* has the content of the original: same text or bytes, same fields in the
\* same order with the same names and mime types.
C13_RoundTrip ==
  (rebuilt # PendingBody /\ body.kind # "ReadableStream") =>
    content(rebuilt) = content(body)

IsPrefix(a, b) == Len(a) <= Len(b) /\ a = SubSeq(b, 1, Len(a))

\* C15 as stated: the page handles the events of a socket id in the order
\* the relay emitted them, and every message event and every close event it
\* handles comes after an open event of that id.
C15_OpenBeforeAll ==
  \A w \in WsIds :
    /\ IsPrefix(handled[w], emitted[w])
    /\ \A i \in 1..Len(handled[w]) :
         handled[w][i] \in {"message", "close"} =>
           \E j \in 1..(i - 1) : handled[w][j] = "open"

\* C15 as amended: the page handles the events of a socket id in the order
\* the relay emitted them; an open event is handled before every message
\* and close event of the id, every message event comes after an open, and
\* nothing is handled after the close.
C15_OrderedOpenFirst ==
  \A w \in WsIds :
    /\ IsPrefix(handled[w], emitted[w])
    /\ \A i \in 1..Len(handled[w]) :
         /\ handled[w][i] = "open" =>
              \A j \in 1..(i - 1) : handled[w][j] \notin {"open", "message", "close"}
         /\ handled[w][i] = "message" =>
              \E j \in 1..(i - 1) : handled[w][j] = "open"
         /\ handled[w][i] = "close" => i = Len(handled[w])

\* A socket opened, received a frame and was closed by the remote side.
C15_Witness ==
  \E w \in WsIds : handled[w] = <<"open", "message", "close">>

\* C16: in the end every proxied fetch whose request was posted is settled
\* and out of pendingFetches, unless the page navigated away.  (The fetches
\* of a run are finitely many and a settled promise stays settled, so this
\* is "each posted fetch is eventually settled".)
C16_FetchSettles ==
  <>[](\/ ~pageAlive
       \/ \A f \in FetchIds :
            promise[f].state # "none" => (Settled(f) /\ f \notin DOMAIN pendingFetches))

\* The relay was stopped while the real fetch ran, and the call was rejected
\* with the lastError message.
C16_Witness ==
  \E f \in FetchIds :
    /\ promise[f].state = "rejected"
    /\ promise[f].error = LastErrorMsg
    /\ fetchResult[f] = "none"
    /\ f \notin DOMAIN pendingFetches

\* C17: when the relay takes a ws-send whose id is not in its table or whose
\* real socket is not open, it posts one error event for the id and calls
\* send on no socket; otherwise it calls send on the socket of that id with
\* the data of the message and posts nothing; its table and the real
\* sockets' states stay as they were.
C17_RelaySend ==
  [][(/\ relayPort = "connected" /\ relayPort' = "connected"
      /\ portUp # <<>>
      /\ Head(portUp).type = WS_SEND
      /\ portUp' = Tail(portUp))
     => LET m == Head(portUp) IN
          /\ UNCHANGED <<sockets, realState>>
          /\ IF m.wsId \in sockets /\ realState[m.wsId] = OPEN
               THEN /\ last' = Call("ws.send", m.wsId, m.data, "sent")
                    /\ portDown' = portDown
               ELSE /\ last'.note = "error"
                    /\ portDown' = Append(portDown, WsEvent(m.wsId, "error", "none"))]_vars

\* A ws-send reached the relay while the real socket, still in the table,
\* was closing, and was refused.
C17_Witness ==
  \E w \in WsIds :
    /\ last.op = "ws.send" /\ last.id = w /\ last.note = "error"
    /\ w \in sockets
    /\ realState[w] = CLOSING

\* The pending-fetch entry of id f, the promise it settles and the count of
\* its settlements are what they were.
SameFetchEntry(f) ==
  /\ (f \in DOMAIN pendingFetches') = (f \in DOMAIN pendingFetches)
  /\ f \in DOMAIN pendingFetches => pendingFetches'[f] = pendingFetches[f]
  /\ promise'[f] = promise[f]
  /\ settles'[f] = settles[f]

\* The virtual socket of id w has the ready-state and the table membership
\* it had.
SameSocket(w) ==
  /\ readyState'[w] = readyState[w]
  /\ (w \in socketMap') = (w \in socketMap)

rank(rs) ==
  CASE rs = "none" -> 0
    [] rs = CONNECTING -> 1
    [] rs = OPEN -> 2
    [] rs = CLOSING -> 3
    [] rs = CLOSED -> 4

\* C19: the ready-state of a proxied socket never moves backwards in the
\* order connecting, open, closing, closed, whatever the page calls and
\* whatever events arrive.
C19_NeverBackwards ==
  [][\A w \in WsIds : rank(readyState'[w]) >= rank(readyState[w])]_vars

\* C20: after the page called close on a proxied socket that was not yet
\* closed, with the channel never lost and every message and event already
\* produced handled, the socket has received its close event: it is closed
\* and out of the page's socket table, not left closing -- also when the
\* relay could not create the real socket.
C20_CloseCompletes ==
  (pageAlive /\ lost = 0 /\ Quiescent)
  => \A w \in WsIds :
       readyState[w] # CLOSING /\ (readyState[w] = CLOSED => w \notin socketMap)

\* C21: the MessageEvent the page gets for a frame the real socket received
\* carries that frame's content: a text frame as the same string, a binary
\* frame as the same bytes (never null or empty-handed), as an ArrayBuffer
\* when the virtual socket's binaryType is "arraybuffer".
C21_FrameFidelity ==
  [][(winData # NoData /\ winData' = NoData)
     => /\ ~rxFrame.binary => eventData' = StringData(rxFrame.value)
        /\ rxFrame.binary =>
              /\ eventData'.kind \in {"ArrayBuffer", "Uint8Array", "Blob"}
              /\ eventData'.bytes = rxFrame.bytes
              /\ binaryType = "arraybuffer" => eventData'.kind = "ArrayBuffer"]_vars

====
